---- MODULE Spec2Model ----
(***************************************************************************)
(* Model of the browser client src/static/js/app.js (class                 *)
(* TokenVisualizer): the prompt, the decision history generatedTokensData, *)
(* the rendered token elements and their dropdowns, the model selector and *)
(* the buttons, and the requests in flight to the generation service.      *)
(*                                                                         *)
(* JavaScript is single threaded: every event handler and every            *)
(* continuation of an async method after an await runs to completion, so   *)
(* each of them is one action.  A fetch that has been issued and not yet   *)
(* answered is an element of a bag of requests in flight.                  *)
(*                                                                         *)
(* Strings are sequences of one-character strings.  A JavaScript value     *)
(* that may be undefined is a sequence of length at most one: <<>> is      *)
(* undefined and <<v>> is the value v.                                     *)
(*                                                                         *)
(* Left out, as nothing reads them back: the text of the status line and   *)
(* of the details panel, the sampling sliders, and the body of a request   *)
(* once it is sent.  updateTokenDetails is kept for the exception it can   *)
(* raise.  lastEvent is an observer: it names the handler or continuation  *)
(* that ran last and how it ended.                                         *)
(***************************************************************************)
EXTENDS Bags, FiniteSets, Integers, Sequences, TLC

VARIABLES
    isModelInitialized,     \* this.isModelInitialized
    originalPrompt,         \* this.originalPrompt
    generatedTokensData,    \* this.generatedTokensData
    promptInput,            \* this.promptInput.value
    promptTextSpan,         \* this.promptTextSpan.textContent
    generatedTokensSpan,    \* children of this.generatedTokensSpan, in order
    dropdowns,              \* the .dropdown elements in the document
    modelSelectOptions,     \* values of the options of this.modelSelect
    modelSelect,            \* this.modelSelect.value
    initializeBtn,          \* this.initializeBtn.disabled
    generateNextBtn,        \* this.generateNextBtn.disabled
    generateAllBtn,         \* this.generateAllBtn.disabled
    configRequest,          \* TRUE while fetch('/config') is outstanding
    initRequests,           \* bag of outstanding fetch('/initialize')
    genRequests,            \* bag of outstanding generation fetches
    lastEvent               \* the handler that ran last and how it ended

vars == <<isModelInitialized, originalPrompt, generatedTokensData, promptInput,
          promptTextSpan, generatedTokensSpan, dropdowns, modelSelectOptions,
          modelSelect, initializeBtn, generateNextBtn,
          generateAllBtn, configRequest, initRequests, genRequests, lastEvent>>

sessionVars == <<originalPrompt, generatedTokensData, promptInput,
                 promptTextSpan, generatedTokensSpan, dropdowns>>

historyVars == <<originalPrompt, generatedTokensData, promptInput,
                 promptTextSpan, generatedTokensSpan>>

modelVars == <<isModelInitialized, modelSelectOptions, modelSelect,
               initializeBtn, configRequest, initRequests>>

(***************************************************************************)
(* Bounds of the model.                                                    *)
(***************************************************************************)
MaxHistory == 2         \* decisions kept in generatedTokensData
MaxInFlight == 2        \* generation requests outstanding together
MaxInitInFlight == 1    \* initialize requests outstanding together
MaxTokens == 2          \* entries of one generate_to_end response

(***************************************************************************)
(* JavaScript values.                                                      *)
(***************************************************************************)
Undefined == <<>>
Def(v) == <<v>>
Val(x) == x[1]

\* Tokens as the service returns them; probability in per mille.
TokenSat == [token_id |-> 1, token_text |-> <<"s">>, probability |-> 820]
TokenRan == [token_id |-> 2, token_text |-> <<"r", "n">>, probability |-> 90]
Tokens == {TokenSat, TokenRan}

\* The ranked alternatives of one step.
TopK == <<TokenSat, TokenRan>>

\* What the user can type into the prompt input.
Prompts == {<<>>, <<"c">>}

\* The model ids the configuration offers (available_models).
Models == {"gpt2"}

(***************************************************************************)
(* The pure helpers of TokenVisualizer.                                    *)
(***************************************************************************)

\* getProbabilityClass testing its thresholds from the lowest up.
getProbabilityClass_LowestFirst(probability) ==
    IF probability > 30 THEN "prob-low"
    ELSE IF probability > 100 THEN "prob-medium"
    ELSE IF probability > 250 THEN "prob-high"
    ELSE IF probability > 600 THEN "prob-very-high"
    ELSE "prob-very-low"

\* getProbabilityClass(probability), probability in per mille.
getProbabilityClass(probability) ==
    IF probability > 600 THEN "prob-very-high"
    ELSE IF probability > 250 THEN "prob-high"
    ELSE IF probability > 100 THEN "prob-medium"
    ELSE IF probability > 30 THEN "prob-low"
    ELSE "prob-very-low"

\* The loop of getCurrentText(): text += tokenData.selected.token_text for
\* every decision, in order.  Reading .token_text of an undefined selected
\* token throws a TypeError.
RECURSIVE GetCurrentTextLoop(_, _, _)
GetCurrentTextLoop(text, data, i) ==
    IF i > Len(data) THEN [threw |-> FALSE, text |-> text]
    ELSE IF data[i].selected = Undefined THEN [threw |-> TRUE, text |-> text]
    ELSE GetCurrentTextLoop(text \o Val(data[i].selected).token_text, data, i + 1)

getCurrentText == GetCurrentTextLoop(originalPrompt, generatedTokensData, 1)

\* createTokenElement(tokenData, index): the span of one decision.  Its click
\* handler keeps the decision object; alternatives and index are the fields
\* the dropdown reads from it.
createTokenElement(tokenData, index) ==
    [className |-> getProbabilityClass(Val(tokenData.selected).probability),
     textContent |-> Val(tokenData.selected).token_text,
     index |-> index,
     tokenData |-> [alternatives |-> tokenData.alternatives,
                    index |-> tokenData.index]]

\* renderTokens(): the span is emptied, then one element per decision is
\* appended in order.  createTokenElement throws on a decision whose selected
\* token is undefined, which leaves the elements appended so far.
RECURSIVE RenderLoop(_, _, _)
RenderLoop(elements, data, i) ==
    IF i > Len(data) THEN [threw |-> FALSE, elements |-> elements]
    ELSE IF data[i].selected = Undefined
         THEN [threw |-> TRUE, elements |-> elements]
    ELSE RenderLoop(Append(elements, createTokenElement(data[i], i - 1)),
                    data, i + 1)

renderTokens(data) == RenderLoop(<<>>, data, 1)

\* updateTokenDetails(tokenData) throws when it reads a field of an undefined
\* selected token or slices undefined alternatives.
updateTokenDetailsThrows(tokenData) ==
    tokenData.selected = Undefined \/ tokenData.alternatives = Undefined

\* addToken with the index taken after the push instead of before it.
addToken_IndexAfterPush(data, selectedToken, topKTokens) ==
    LET tokenData == [selected |-> selectedToken,
                      alternatives |-> topKTokens,
                      index |-> Len(data) + 1]
        pushed == Append(data, tokenData)
        r == renderTokens(pushed)
    IN  [data |-> pushed,
         elements |-> r.elements,
         dropdowns |-> {},
         threw |-> r.threw \/ updateTokenDetailsThrows(tokenData)]

\* addToken storing the first alternative instead of the selected token.
addToken_SelectsTopRanked(data, selectedToken, topKTokens) ==
    LET tokenData == [selected |-> IF topKTokens = Undefined THEN Undefined
                                   ELSE Def(Val(topKTokens)[1]),
                      alternatives |-> topKTokens,
                      index |-> Len(data)]
        pushed == Append(data, tokenData)
        r == renderTokens(pushed)
    IN  [data |-> pushed,
         elements |-> r.elements,
         dropdowns |-> {},
         threw |-> r.threw \/ updateTokenDetailsThrows(tokenData)]

\* addToken(selectedToken, topKTokens) on the history `data`: push, render,
\* update the details.  The push comes first, so it stays when a later step
\* throws.  Rendering removes every dropdown, which are children of the
\* token elements.
addToken(data, selectedToken, topKTokens) ==
    LET tokenData == [selected |-> selectedToken,
                      alternatives |-> topKTokens,
                      index |-> Len(data)]
        pushed == Append(data, tokenData)
        r == renderTokens(pushed)
    IN  [data |-> pushed,
         elements |-> r.elements,
         dropdowns |-> {},
         threw |-> r.threw \/ updateTokenDetailsThrows(tokenData)]

\* The loop of generateToEnd leaving after its first entry.
AddTokensLoop_FirstOnly(st, entries, i) ==
    IF i > Len(entries) THEN st
    ELSE addToken(st.data, entries[i].selected_token, entries[i].top_k_tokens)

\* for (const tokenData of data.generated_tokens) this.addToken(...), from
\* entry i on; an exception ends the loop.
RECURSIVE AddTokensLoop(_, _, _)
AddTokensLoop(st, entries, i) ==
    IF i > Len(entries) THEN st
    ELSE LET r == addToken(st.data, entries[i].selected_token,
                           entries[i].top_k_tokens)
         IN  IF r.threw THEN r ELSE AddTokensLoop(r, entries, i + 1)

\* selectAlternativeToken keeping the decisions after tokenIndex.
truncateAndReplace_KeepsSuffix(data, tokenIndex, selectedToken) ==
    [data EXCEPT ![tokenIndex + 1].selected = Def(selectedToken)]

\* The first two statements of selectAlternativeToken(tokenIndex,
\* selectedToken): the decision's selected token is overwritten and the
\* history is cut after it.  tokenIndex is zero-based.
truncateAndReplace(data, tokenIndex, selectedToken) ==
    SubSeq([data EXCEPT ![tokenIndex + 1].selected = Def(selectedToken)],
           1, tokenIndex + 1)

\* createDropdown(tokenData, tokenElement): one item per alternative.
createDropdown(tokenData) ==
    [index |-> tokenData.index, items |-> Val(tokenData.alternatives)]

Event(handler, outcome) == [handler |-> handler, outcome |-> outcome]

\* What a generation handler has done when it reaches its await: the fetch it
\* has made carries the text getCurrentText() returned.
Fetch(handler, text) ==
    [handler |-> handler, outcome |-> "awaiting", text |-> text]

(***************************************************************************)
(* What the service can answer.                                            *)
(***************************************************************************)

\* One step of a response: complete, or lacking its selected token.
ServiceEntries ==
    {[selected_token |-> Def(t), top_k_tokens |-> Def(TopK)] : t \in Tokens}
    \cup {[selected_token |-> Undefined, top_k_tokens |-> Def(TopK)]}

\* The JSON of /generate_next_token.
NextTokenResponses ==
    {[status |-> "success", selected_token |-> e.selected_token,
      top_k_tokens |-> e.top_k_tokens] : e \in ServiceEntries}
    \cup {[status |-> "error", selected_token |-> Undefined,
           top_k_tokens |-> Undefined]}

RECURSIVE SeqsUpTo(_, _)
SeqsUpTo(S, n) ==
    IF n = 0 THEN {<<>>}
    ELSE LET shorter == SeqsUpTo(S, n - 1)
         IN  shorter \cup {Append(s, x) : s \in shorter, x \in S}

\* The JSON of /generate_to_end.
ToEndResponses ==
    {[status |-> "success", generated_tokens |-> Def(es)] :
        es \in SeqsUpTo(ServiceEntries, MaxTokens)}
    \cup {[status |-> "success", generated_tokens |-> Undefined],
          [status |-> "error", generated_tokens |-> Undefined]}

(***************************************************************************)
(* The state after new TokenVisualizer(): the constructor has run and the  *)
(* fetch of loadConfig() is outstanding.  The page's markup, which the     *)
(* constructor only looks up, is taken to start with the three buttons     *)
(* disabled and a selector whose one option has the value ''.              *)
(***************************************************************************)
Init ==
    /\ isModelInitialized = FALSE
    /\ originalPrompt = <<>>
    /\ generatedTokensData = <<>>
    /\ promptInput = <<>>
    /\ promptTextSpan = <<>>
    /\ generatedTokensSpan = <<>>
    /\ dropdowns = {}
    /\ modelSelectOptions = {""}
    /\ modelSelect = ""
    /\ initializeBtn = TRUE
    /\ generateNextBtn = TRUE
    /\ generateAllBtn = TRUE
    /\ configRequest = TRUE
    /\ initRequests = EmptyBag
    /\ genRequests = EmptyBag
    /\ lastEvent = Event("constructor", "awaiting")

\* closeAllDropdowns(): every .dropdown of the document is removed.
closeAllDropdowns == {}

\* The click handler bindEvents() puts on the document: a click that reaches
\* it from outside every token closes the dropdowns.  The click on a button
\* bubbles to it after the button's own handler has run.
documentClickHandler == dropdowns' = closeAllDropdowns

(***************************************************************************)
(* Configuration and model lifecycle.                                      *)
(***************************************************************************)

\* onModelSelectionChange() with the selector showing `value`.
onModelSelectionChange(value) ==
    /\ initializeBtn' = (value = "")
    /\ IF isModelInitialized
       THEN /\ isModelInitialized' = FALSE
            /\ generateNextBtn' = TRUE
            /\ generateAllBtn' = TRUE
       ELSE UNCHANGED <<isModelInitialized, generateNextBtn, generateAllBtn>>

\* The continuation of loadConfig() once fetch('/config') settles.  With
\* available_models the selector is filled (populateModelSelect, which ends
\* in onModelSelectionChange) and default_model, if it is one of the models,
\* is selected; initializeSamplingControls then throws if the configuration
\* has no sampling_parameters.  Every failure leaves one option of value ''.
loadConfig(outcome, models, defaultModel) ==
    /\ configRequest
    /\ configRequest' = FALSE
    /\ IF outcome \in {"config", "no_sampling_parameters"}
       THEN /\ onModelSelectionChange(defaultModel)
            /\ IF outcome = "config"
               THEN /\ modelSelectOptions' = {""} \cup models
                    /\ modelSelect' = defaultModel
                    /\ lastEvent' = Event("loadConfig", "resolved")
               ELSE /\ modelSelectOptions' = {""}
                    /\ modelSelect' = ""
                    /\ lastEvent' = Event("loadConfig", "type_error")
       ELSE /\ modelSelectOptions' = {""}
            /\ modelSelect' = ""
            /\ lastEvent' = Event("loadConfig", outcome)
            /\ UNCHANGED <<isModelInitialized, initializeBtn,
                           generateNextBtn, generateAllBtn>>
    /\ UNCHANGED <<sessionVars, initRequests, genRequests>>

\* The user picks another option of the model selector: the change event.
ModelSelectChange(value) ==
    /\ value \in modelSelectOptions
    /\ value # modelSelect
    /\ modelSelect' = value
    /\ onModelSelectionChange(value)
    /\ lastEvent' = Event("onModelSelectionChange", "returned")
    /\ UNCHANGED <<sessionVars, modelSelectOptions, configRequest,
                   initRequests, genRequests>>

\* initializeModel without its test of an empty model name.
initializeModel_AnyModelName ==
    /\ ~initializeBtn
    /\ BagCardinality(initRequests) < MaxInitInFlight
    /\ initializeBtn' = TRUE
    /\ initRequests' = initRequests (+) SetToBag({modelSelect})
    /\ lastEvent' = Event("initializeModel", "awaiting")
    /\ documentClickHandler
    /\ UNCHANGED <<historyVars, isModelInitialized, modelSelectOptions,
                   modelSelect, generateNextBtn, generateAllBtn,
                   configRequest, genRequests>>

\* A click on the Initialize button: initializeModel() up to its await, with
\* at most `cap` initialize requests outstanding together.
initializeModelUpTo(cap) ==
    /\ ~initializeBtn
    /\ IF modelSelect = ""
       THEN /\ lastEvent' = Event("initializeModel", "returned")
            /\ UNCHANGED <<initializeBtn, initRequests>>
       ELSE /\ BagCardinality(initRequests) < cap
            /\ initializeBtn' = TRUE
            /\ initRequests' = initRequests (+) SetToBag({modelSelect})
            /\ lastEvent' = Event("initializeModel", "awaiting")
    /\ documentClickHandler
    /\ UNCHANGED <<historyVars, isModelInitialized, modelSelectOptions,
                   modelSelect, generateNextBtn, generateAllBtn,
                   configRequest, genRequests>>

initializeModel == initializeModelUpTo(MaxInitInFlight)

\* The continuation of initializeModel() once fetch('/initialize') for
\* modelName settles: status success, another status, or a rejection.
initializeModelResponse(modelName, outcome) ==
    /\ BagIn(modelName, initRequests)
    /\ initRequests' = initRequests (-) SetToBag({modelName})
    /\ IF outcome = "success"
       THEN /\ isModelInitialized' = TRUE
            /\ generateNextBtn' = FALSE
            /\ generateAllBtn' = FALSE
       ELSE UNCHANGED <<isModelInitialized, generateNextBtn, generateAllBtn>>
    /\ initializeBtn' = FALSE
    /\ lastEvent' = Event("initializeModel", outcome)
    /\ UNCHANGED <<sessionVars, modelSelectOptions, modelSelect,
                   configRequest, genRequests>>

(***************************************************************************)
(* Session state.                                                          *)
(***************************************************************************)

\* updatePromptDisplay clearing the history with the old prompt.
updatePromptDisplay_ClearsHistory(value) ==
    /\ value # promptInput
    /\ promptInput' = value
    /\ promptTextSpan' = value
    /\ originalPrompt' = value
    /\ generatedTokensData' = <<>>
    /\ generatedTokensSpan' = <<>>
    /\ dropdowns' = {}
    /\ lastEvent' = Event("updatePromptDisplay", "returned")
    /\ UNCHANGED <<modelVars, generateNextBtn, generateAllBtn, genRequests>>

\* The user edits the prompt input to `value`: the input event.
updatePromptDisplay(value) ==
    /\ value # promptInput
    /\ promptInput' = value
    /\ promptTextSpan' = value
    /\ originalPrompt' = value
    /\ lastEvent' = Event("updatePromptDisplay", "returned")
    /\ UNCHANGED <<generatedTokensData, generatedTokensSpan, dropdowns,
                   modelVars, generateNextBtn, generateAllBtn, genRequests>>

\* reset leaving this.originalPrompt as it is.
reset_KeepsPrompt ==
    /\ generatedTokensData' = <<>>
    /\ promptInput' = <<>>
    /\ promptTextSpan' = <<>>
    /\ generatedTokensSpan' = <<>>
    /\ dropdowns' = {}
    /\ lastEvent' = Event("reset", "returned")
    /\ UNCHANGED <<originalPrompt, modelVars, generateNextBtn, generateAllBtn,
                   genRequests>>

\* reset leaving the dropdown that is open on the page.
reset_KeepsDropdowns ==
    /\ generatedTokensData' = <<>>
    /\ originalPrompt' = <<>>
    /\ promptInput' = <<>>
    /\ promptTextSpan' = <<>>
    /\ generatedTokensSpan' = <<>>
    /\ dropdowns' = dropdowns
    /\ lastEvent' = Event("reset", "returned")
    /\ UNCHANGED <<modelVars, generateNextBtn, generateAllBtn, genRequests>>

\* A click on the Reset button.
reset ==
    /\ generatedTokensData' = <<>>
    /\ originalPrompt' = <<>>
    /\ promptInput' = <<>>
    /\ promptTextSpan' = <<>>
    /\ generatedTokensSpan' = <<>>
    /\ dropdowns' = closeAllDropdowns
    /\ lastEvent' = Event("reset", "returned")
    /\ UNCHANGED <<modelVars, generateNextBtn, generateAllBtn, genRequests>>

(***************************************************************************)
(* Generation.                                                             *)
(***************************************************************************)

\* GenerateClick without the test of isModelInitialized.
GenerateClick_Ungated(handler, url, disabled) ==
    /\ ~disabled
    /\ IF getCurrentText.threw
       THEN /\ lastEvent' = Event(handler, "uncaught")
            /\ UNCHANGED <<generateNextBtn, generateAllBtn, genRequests>>
       ELSE /\ BagCardinality(genRequests) < MaxInFlight
            /\ generateNextBtn' = TRUE
            /\ generateAllBtn' = TRUE
            /\ genRequests' = genRequests (+) SetToBag({[url |-> url]})
            /\ lastEvent' = Fetch(handler, getCurrentText.text)
    /\ documentClickHandler
    /\ UNCHANGED <<historyVars, modelVars>>

\* generateNextToken() and generateToEnd() up to their await, on a click of
\* the button `disabled` stands for.  getCurrentText() runs before the try
\* block, so its exception leaves the method.  A request in flight is its
\* url: the client never reads the body it has sent.
GenerateClick(handler, url, disabled) ==
    /\ ~disabled
    /\ IF ~isModelInitialized
       THEN /\ lastEvent' = Event(handler, "returned")
            /\ UNCHANGED <<generateNextBtn, generateAllBtn, genRequests>>
       ELSE IF getCurrentText.threw
       THEN /\ lastEvent' = Event(handler, "uncaught")
            /\ UNCHANGED <<generateNextBtn, generateAllBtn, genRequests>>
       ELSE /\ BagCardinality(genRequests) < MaxInFlight
            /\ generateNextBtn' = TRUE
            /\ generateAllBtn' = TRUE
            /\ genRequests' = genRequests (+) SetToBag({[url |-> url]})
            /\ lastEvent' = Fetch(handler, getCurrentText.text)
    /\ documentClickHandler
    /\ UNCHANGED <<historyVars, modelVars>>

generateNextToken ==
    GenerateClick("generateNextToken", "/generate_next_token", generateNextBtn)

generateToEnd ==
    GenerateClick("generateToEnd", "/generate_to_end", generateAllBtn)

\* What the catch and finally blocks of both methods leave: the buttons are
\* enabled again whatever happened.
GenerateFinally(request) ==
    /\ genRequests' = genRequests (-) SetToBag({request})
    /\ generateNextBtn' = FALSE
    /\ generateAllBtn' = FALSE
    /\ UNCHANGED <<originalPrompt, promptInput, promptTextSpan, modelVars>>

\* The catch block sending the rejected request again.
generateRequestError_Retries(request) ==
    /\ BagIn(request, genRequests)
    /\ genRequests' = genRequests
    /\ generateNextBtn' = TRUE
    /\ generateAllBtn' = TRUE
    /\ lastEvent' = Event(IF request.url = "/generate_next_token"
                          THEN "generateNextToken" ELSE "generateToEnd",
                          "network_error")
    /\ UNCHANGED <<generatedTokensData, generatedTokensSpan, dropdowns,
                   originalPrompt, promptInput, promptTextSpan, modelVars>>

\* The catch block undoing the last decision of the history.
generateRequestError_DropsLast(request) ==
    /\ BagIn(request, genRequests)
    /\ genRequests' = genRequests (-) SetToBag({request})
    /\ generateNextBtn' = FALSE
    /\ generateAllBtn' = FALSE
    /\ lastEvent' = Event(IF request.url = "/generate_next_token"
                          THEN "generateNextToken" ELSE "generateToEnd",
                          "network_error")
    /\ generatedTokensData' =
           SubSeq(generatedTokensData, 1, Len(generatedTokensData) - 1)
    /\ generatedTokensSpan' =
           SubSeq(generatedTokensSpan, 1, Len(generatedTokensSpan) - 1)
    /\ UNCHANGED <<originalPrompt, promptInput, promptTextSpan, dropdowns,
                   modelVars>>

\* The fetch of a generation request is rejected (or its body is no JSON):
\* the catch block logs it.
generateRequestError(request) ==
    /\ BagIn(request, genRequests)
    /\ GenerateFinally(request)
    /\ lastEvent' = Event(IF request.url = "/generate_next_token"
                          THEN "generateNextToken" ELSE "generateToEnd",
                          "network_error")
    /\ UNCHANGED <<generatedTokensData, generatedTokensSpan, dropdowns>>

\* generateNextTokenResponse emptying the history on a reported failure.
generateNextTokenResponse_ErrorClears(request, response) ==
    /\ BagIn(request, genRequests)
    /\ request.url = "/generate_next_token"
    /\ GenerateFinally(request)
    /\ IF response.status = "success"
       THEN /\ Len(generatedTokensData) < MaxHistory
            /\ LET r == addToken(generatedTokensData, response.selected_token,
                                 response.top_k_tokens)
               IN  /\ generatedTokensData' = r.data
                   /\ generatedTokensSpan' = r.elements
                   /\ dropdowns' = r.dropdowns
                   /\ lastEvent' = Event("generateNextToken",
                          IF r.threw THEN "type_error" ELSE "success")
       ELSE /\ lastEvent' = Event("generateNextToken", "reported")
            /\ generatedTokensData' = <<>>
            /\ generatedTokensSpan' = <<>>
            /\ dropdowns' = {}

\* The continuation of generateNextToken() on the JSON `response`.
generateNextTokenResponse(request, response) ==
    /\ BagIn(request, genRequests)
    /\ request.url = "/generate_next_token"
    /\ GenerateFinally(request)
    /\ IF response.status = "success"
       THEN /\ Len(generatedTokensData) < MaxHistory
            /\ LET r == addToken(generatedTokensData, response.selected_token,
                                 response.top_k_tokens)
               IN  /\ generatedTokensData' = r.data
                   /\ generatedTokensSpan' = r.elements
                   /\ dropdowns' = r.dropdowns
                   /\ lastEvent' = Event("generateNextToken",
                          IF r.threw THEN "type_error" ELSE "success")
       ELSE /\ lastEvent' = Event("generateNextToken", "reported")
            /\ UNCHANGED <<generatedTokensData, generatedTokensSpan,
                           dropdowns>>

\* The continuation of generateToEnd() on the JSON `response`.  Iterating
\* over undefined generated_tokens throws before any token is added.
generateToEndResponse(request, response) ==
    /\ BagIn(request, genRequests)
    /\ request.url = "/generate_to_end"
    /\ GenerateFinally(request)
    /\ IF response.status # "success"
       THEN /\ lastEvent' = Event("generateToEnd", "reported")
            /\ UNCHANGED <<generatedTokensData, generatedTokensSpan,
                           dropdowns>>
       ELSE IF response.generated_tokens = Undefined
       THEN /\ lastEvent' = Event("generateToEnd", "type_error")
            /\ UNCHANGED <<generatedTokensData, generatedTokensSpan,
                           dropdowns>>
       ELSE /\ Len(generatedTokensData) + Len(Val(response.generated_tokens))
                   <= MaxHistory
            /\ LET r == AddTokensLoop([data |-> generatedTokensData,
                                       elements |-> generatedTokensSpan,
                                       dropdowns |-> dropdowns,
                                       threw |-> FALSE],
                                      Val(response.generated_tokens), 1)
               IN  /\ generatedTokensData' = r.data
                   /\ generatedTokensSpan' = r.elements
                   /\ dropdowns' = r.dropdowns
                   /\ lastEvent' = Event("generateToEnd",
                          IF r.threw THEN "type_error" ELSE "success")

(***************************************************************************)
(* The token stream and its dropdowns.                                     *)
(***************************************************************************)

\* toggleDropdown without its call of closeAllDropdowns.
toggleDropdown_KeepsOthers(i) ==
    /\ i \in DOMAIN generatedTokensSpan
    /\ LET tokenData == generatedTokensSpan[i].tokenData
       IN  IF tokenData.alternatives = Undefined
           THEN /\ dropdowns' = dropdowns
                /\ lastEvent' = Event("toggleDropdown", "uncaught")
           ELSE /\ dropdowns' = dropdowns \cup {createDropdown(tokenData)}
                /\ lastEvent' = Event("toggleDropdown", "returned")
    /\ UNCHANGED <<historyVars, modelVars, generateNextBtn, generateAllBtn,
                   genRequests>>

\* A click on the token element at place i of the span: toggleDropdown.  The
\* other dropdowns are closed first; createDropdown throws on undefined
\* alternatives, and then none is open.
toggleDropdown(i) ==
    /\ i \in DOMAIN generatedTokensSpan
    /\ LET tokenData == generatedTokensSpan[i].tokenData
       IN  IF tokenData.alternatives = Undefined
           THEN /\ dropdowns' = closeAllDropdowns
                /\ lastEvent' = Event("toggleDropdown", "uncaught")
           ELSE /\ dropdowns' = closeAllDropdowns \cup {createDropdown(tokenData)}
                /\ lastEvent' = Event("toggleDropdown", "returned")
    /\ UNCHANGED <<historyVars, modelVars, generateNextBtn, generateAllBtn,
                   genRequests>>

\* selectAlternativeToken reading the history the way slice does: a
\* tokenIndex beyond the history is taken as its last place, one below 0
\* empties the history, and nothing is thrown.
selectAlternativeTokenCall_Clamps(tokenIndex, selectedToken) ==
    /\ LET n == Len(generatedTokensData)
           data == IF tokenIndex < 0 \/ n = 0 THEN <<>>
                   ELSE IF tokenIndex >= n
                   THEN truncateAndReplace(generatedTokensData, n - 1,
                                           selectedToken)
                   ELSE truncateAndReplace(generatedTokensData, tokenIndex,
                                           selectedToken)
           r == renderTokens(data)
       IN  /\ generatedTokensData' = data
           /\ generatedTokensSpan' = r.elements
           /\ dropdowns' = closeAllDropdowns
           /\ lastEvent' = Event("selectAlternativeToken", "returned")
    /\ UNCHANGED <<originalPrompt, promptInput, promptTextSpan, modelVars,
                   generateNextBtn, generateAllBtn, genRequests>>

\* selectAlternativeToken(tokenIndex, selectedToken).  Its first statement
\* assigns to generatedTokensData[tokenIndex].selected: where the history has
\* no such element, below 0 or from its length on, that throws before
\* anything is changed.
selectAlternativeTokenCall(tokenIndex, selectedToken) ==
    /\ IF tokenIndex < 0 \/ tokenIndex >= Len(generatedTokensData)
       THEN /\ lastEvent' = Event("selectAlternativeToken", "uncaught")
            /\ UNCHANGED <<generatedTokensData, generatedTokensSpan, dropdowns>>
       ELSE LET data == truncateAndReplace(generatedTokensData, tokenIndex,
                                           selectedToken)
                r == renderTokens(data)
            IN  /\ generatedTokensData' = data
                /\ generatedTokensSpan' = r.elements
                /\ dropdowns' = IF r.threw THEN {} ELSE closeAllDropdowns
                /\ lastEvent' = Event("selectAlternativeToken",
                       IF r.threw \/ updateTokenDetailsThrows(data[tokenIndex + 1])
                       THEN "uncaught" ELSE "returned")
    /\ UNCHANGED <<originalPrompt, promptInput, promptTextSpan, modelVars,
                   generateNextBtn, generateAllBtn, genRequests>>

\* A click on item k of the open dropdown d: the listener createDropdown has
\* put on the item calls selectAlternativeToken(tokenData.index, token).
selectAlternativeToken(d, k) ==
    /\ d \in dropdowns
    /\ k \in DOMAIN d.items
    /\ selectAlternativeTokenCall(d.index, d.items[k])

\* A click outside every token: the document's click handler.
documentClick ==
    /\ documentClickHandler
    /\ lastEvent' = Event("documentClick", "returned")
    /\ UNCHANGED <<historyVars, modelVars, generateNextBtn, generateAllBtn,
                   genRequests>>

Next ==
    \/ \E outcome \in {"config", "no_sampling_parameters", "no_models",
                       "network_error"},
          defaultModel \in {""} \cup Models :
          loadConfig(outcome, Models, defaultModel)
    \/ \E value \in {""} \cup Models : ModelSelectChange(value)
    \/ initializeModel
    \/ \E modelName \in Models, outcome \in {"success", "reported",
                                             "network_error"} :
          initializeModelResponse(modelName, outcome)
    \/ \E value \in Prompts : updatePromptDisplay(value)
    \/ reset
    \/ generateNextToken
    \/ generateToEnd
    \/ \E request \in BagToSet(genRequests) : generateRequestError(request)
    \/ \E request \in BagToSet(genRequests), response \in NextTokenResponses :
          generateNextTokenResponse(request, response)
    \/ \E request \in BagToSet(genRequests), response \in ToEndResponses :
          generateToEndResponse(request, response)
    \/ \E i \in 1..MaxHistory : toggleDropdown(i)
    \/ \E d \in dropdowns, k \in 1..Len(TopK) : selectAlternativeToken(d, k)
    \/ documentClick

Spec == Init /\ [][Next]_vars

(***************************************************************************)
(* The model lifecycle alone: the configuration, the selector, the         *)
(* Initialize button and the prompt, with room for one initialize request  *)
(* more than Spec allows.                                                  *)
(***************************************************************************)
NextInitialize ==
    \/ \E outcome \in {"config", "no_sampling_parameters", "no_models",
                       "network_error"},
          defaultModel \in {""} \cup Models :
          loadConfig(outcome, Models, defaultModel)
    \/ \E value \in {""} \cup Models : ModelSelectChange(value)
    \/ initializeModelUpTo(MaxInitInFlight + 1)
    \/ \E modelName \in Models, outcome \in {"success", "reported",
                                             "network_error"} :
          initializeModelResponse(modelName, outcome)
    \/ \E value \in Prompts : updatePromptDisplay(value)
    \/ documentClick

SpecInitialize == Init /\ [][NextInitialize]_vars

(***************************************************************************)
(* The methods called on their own.  The session starts from any history   *)
(* the loop of addToken can have built and any prompt, the model not       *)
(* initialized, and selectAlternativeToken is called with any tokenIndex,  *)
(* not only one a dropdown holds.                                          *)
(***************************************************************************)

\* The values of tokenIndex: below the history, inside it and beyond it.
IndexInputs == (0 - 1)..MaxHistory

InitCalls ==
    /\ \E entries \in SeqsUpTo(ServiceEntries, MaxHistory) :
          LET st == AddTokensLoop([data |-> <<>>, elements |-> <<>>,
                                   dropdowns |-> {}, threw |-> FALSE],
                                  entries, 1)
          IN  /\ generatedTokensData = st.data
              /\ generatedTokensSpan = st.elements
    /\ originalPrompt \in Prompts
    /\ promptInput = originalPrompt
    /\ promptTextSpan = originalPrompt
    /\ dropdowns = {}
    /\ isModelInitialized = FALSE
    /\ modelSelectOptions = {""}
    /\ modelSelect = ""
    /\ initializeBtn = TRUE
    /\ generateNextBtn = TRUE
    /\ generateAllBtn = TRUE
    /\ configRequest = FALSE
    /\ initRequests = EmptyBag
    /\ genRequests = EmptyBag
    /\ lastEvent = Event("constructor", "returned")

\* renderTokens appending to the span without emptying it first.
renderTokensCall_KeepsSpan ==
    /\ LET r == renderTokens(generatedTokensData)
       IN  /\ generatedTokensSpan' = generatedTokensSpan \o r.elements
           /\ lastEvent' = Event("renderTokens",
                  IF r.threw THEN "uncaught" ELSE "returned")
    /\ dropdowns' = dropdowns
    /\ UNCHANGED <<generatedTokensData, originalPrompt, promptInput,
                   promptTextSpan, modelVars, generateNextBtn, generateAllBtn,
                   genRequests>>

\* renderTokens() called on the history as it is.  Emptying the span takes
\* the dropdowns, children of the token elements, with it.
renderTokensCall ==
    /\ LET r == renderTokens(generatedTokensData)
       IN  /\ generatedTokensSpan' = r.elements
           /\ lastEvent' = Event("renderTokens",
                  IF r.threw THEN "uncaught" ELSE "returned")
    /\ dropdowns' = {}
    /\ UNCHANGED <<generatedTokensData, originalPrompt, promptInput,
                   promptTextSpan, modelVars, generateNextBtn, generateAllBtn,
                   genRequests>>

NextCalls ==
    \/ \E tokenIndex \in IndexInputs, selectedToken \in Tokens :
          selectAlternativeTokenCall(tokenIndex, selectedToken)
    \/ renderTokensCall
    \/ \E i \in 1..MaxHistory : toggleDropdown(i)
    \/ \E value \in Prompts : updatePromptDisplay(value)
    \/ reset
    \/ documentClick

SpecCalls == InitCalls /\ [][NextCalls]_vars

(***************************************************************************)
(* The colour of a token.  A session without decisions receives one step   *)
(* whose selected token has any probability of the grid, and addToken      *)
(* renders it.                                                             *)
(***************************************************************************)

\* Probabilities are thousandths: PerMille is the probability 1.
PerMille == 1000

Probabilities == 0..PerMille

TokenOf(probability) ==
    [token_id |-> 1, token_text |-> <<"s">>, probability |-> probability]

\* addToken(selectedToken, topKTokens) on the response of one step.
addTokenCall(selectedToken) ==
    /\ generatedTokensData = <<>>
    /\ LET r == addToken(generatedTokensData, Def(selectedToken), Def(TopK))
       IN  /\ generatedTokensData' = r.data
           /\ generatedTokensSpan' = r.elements
           /\ dropdowns' = r.dropdowns
    /\ lastEvent' = Event("addToken", "returned")
    /\ UNCHANGED <<originalPrompt, promptInput, promptTextSpan, modelVars,
                   generateNextBtn, generateAllBtn, genRequests>>

NextTiers ==
    \/ \E probability \in Probabilities : addTokenCall(TokenOf(probability))
    \/ reset

SpecTiers == InitCalls /\ [][NextTiers]_vars

(***************************************************************************)
(* The older variant of the client.  Its addToken, renderTokens,           *)
(* createTokenElement and reset read as the ones above; only the           *)
(* thresholds of getProbabilityClass differ, so its token elements are the *)
(* ones above with the class its own thresholds give.                      *)
(***************************************************************************)

\* getProbabilityClass(probability) of the older variant.
originalGetProbabilityClass(probability) ==
    IF probability > 700 THEN "prob-very-high"
    ELSE IF probability > 500 THEN "prob-high"
    ELSE IF probability > 300 THEN "prob-medium"
    ELSE IF probability > 100 THEN "prob-low"
    ELSE "prob-very-low"

\* createTokenElement of the older variant for the element the code above
\* builds from the same decision.
originalCreateTokenElement(element, tokenData) ==
    [element EXCEPT !.className =
        originalGetProbabilityClass(Val(tokenData.selected).probability)]

\* addToken(selectedToken, topKTokens) of the older variant on the response
\* of one step.
originalAddTokenCall(selectedToken) ==
    /\ generatedTokensData = <<>>
    /\ LET r == addToken(generatedTokensData, Def(selectedToken), Def(TopK))
       IN  /\ generatedTokensData' = r.data
           /\ generatedTokensSpan' =
                  [i \in DOMAIN r.elements |->
                      originalCreateTokenElement(r.elements[i], r.data[i])]
           /\ dropdowns' = r.dropdowns
    /\ lastEvent' = Event("addToken", "returned")
    /\ UNCHANGED <<originalPrompt, promptInput, promptTextSpan, modelVars,
                   generateNextBtn, generateAllBtn, genRequests>>

InitOriginal == InitCalls /\ generatedTokensData = <<>>

NextOriginal ==
    \/ \E probability \in Probabilities :
          originalAddTokenCall(TokenOf(probability))
    \/ \E value \in Prompts : updatePromptDisplay(value)
    \/ reset

SpecOriginal == InitOriginal /\ [][NextOriginal]_vars

(***************************************************************************)
(* Properties.                                                             *)
(***************************************************************************)

GenerationHandlers == {"generateNextToken", "generateToEnd"}

\* The decision addToken builds from one step of a response.
DecisionOf(entry, index) ==
    [selected |-> entry.selected_token,
     alternatives |-> entry.top_k_tokens,
     index |-> index]

\* C1: in every reachable state every decision of generatedTokensData holds
\* its own zero-based place: generatedTokensData[i].index = i, with no gaps.
C1_IndexIsPosition ==
    \A i \in 1..Len(generatedTokensData) : generatedTokensData[i].index = i - 1

\* A run-to-end response has just been folded into a history that is now
\* full while another generation request is still outstanding.
C1_Witness ==
    /\ lastEvent = Event("generateToEnd", "success")
    /\ Len(generatedTokensData) = MaxHistory
    /\ BagCardinality(genRequests) >= 1

\* C2: at most one generation request is outstanding at any time.
C2_AtMostOneGenerationOutstanding == BagCardinality(genRequests) <= 1

\* C3: selecting alternative t of the decision at position p leaves a history
\* of length p+1 whose decision p has selected t and the alternatives it had.
C3_TruncateAndReplace ==
    [][lastEvent'.handler = "selectAlternativeToken"
       => \A d \in dropdowns, k \in 1..Len(TopK) :
             (k \in DOMAIN d.items /\ selectAlternativeToken(d, k)
              /\ d.index < Len(generatedTokensData))
             => /\ Len(generatedTokensData') = d.index + 1
                /\ generatedTokensData'[d.index + 1].selected = Def(d.items[k])
                /\ generatedTokensData'[d.index + 1].alternatives
                       = generatedTokensData[d.index + 1].alternatives]_vars

\* An alternative has just been selected on the first decision, which now
\* holds a token other than its top-ranked alternative.
C3_Witness ==
    /\ lastEvent = Event("selectAlternativeToken", "returned")
    /\ Len(generatedTokensData) = 1
    /\ generatedTokensData[1].selected = Def(TokenRan)
    /\ generatedTokensData[1].alternatives = Def(TopK)

\* The text of every decision's selected token, none for an undefined one.
SelectedTexts ==
    [i \in 1..Len(generatedTokensData) |->
        IF generatedTokensData[i].selected = Undefined THEN <<>>
        ELSE Val(generatedTokensData[i].selected).token_text]

RECURSIVE Flatten(_)
Flatten(seqs) ==
    IF seqs = <<>> THEN <<>> ELSE Head(seqs) \o Flatten(Tail(seqs))

\* C4: in every reachable state getCurrentText() returns originalPrompt
\* followed by the token_text of every decision's selected token, in order.
C4_CurrentTextIsProjection ==
    /\ ~getCurrentText.threw
    /\ getCurrentText.text = originalPrompt \o Flatten(SelectedTexts)

\* C5: a generation call that fails (a status other than success, or a
\* rejected request) leaves the prompt and the decision history as they were.
C5_FailureLeavesStateUnchanged ==
    [][(/\ lastEvent'.handler \in GenerationHandlers
        /\ lastEvent'.outcome \in {"reported", "network_error"})
       => UNCHANGED <<originalPrompt, generatedTokensData>>]_vars

\* A run-to-end request has just been rejected with a decision in the history.
C5_Witness ==
    /\ lastEvent = Event("generateToEnd", "network_error")
    /\ Len(generatedTokensData) >= 1

\* C6 as stated: editing the prompt replaces the prompt and clears the
\* decision history, so that the current text is the new prompt.
C6_SetPromptClearsHistory ==
    [][lastEvent'.handler = "updatePromptDisplay"
       => /\ originalPrompt' = promptInput'
          /\ Len(generatedTokensData') = 0]_vars

\* C6 as amended: editing the prompt replaces the prompt, on the page and in
\* originalPrompt, and leaves the decision history as it was.
C6_SetPromptKeepsHistory ==
    [][lastEvent'.handler = "updatePromptDisplay"
       => /\ originalPrompt' = promptInput'
          /\ promptTextSpan' = promptInput'
          /\ generatedTokensData' = generatedTokensData]_vars

\* The prompt has just been edited over a history that holds decisions.
C6_Witness ==
    /\ lastEvent = Event("updatePromptDisplay", "returned")
    /\ originalPrompt = <<"c">>
    /\ Len(generatedTokensData) >= 1

\* C7: immediately after reset() the history is empty, the prompt is the
\* empty string and getCurrentText() returns the empty string.
C7_ResetClears ==
    lastEvent = Event("reset", "returned")
    => /\ Len(generatedTokensData) = 0
       /\ originalPrompt = <<>>
       /\ ~getCurrentText.threw
       /\ getCurrentText.text = <<>>

\* Reset has just run while a generation request was outstanding.
C7_Witness ==
    /\ lastEvent = Event("reset", "returned")
    /\ BagCardinality(genRequests) >= 1

\* C8: a single-step response of status success appends exactly one decision,
\* at position len(history), holding the response's selected_token and
\* top_k_tokens; the decisions before it are unchanged.
C8_NextTokenAppendsOne ==
    [][lastEvent'.handler = "generateNextToken"
       => \A request \in BagToSet(genRequests),
             response \in NextTokenResponses :
             (response.status = "success"
              /\ generateNextTokenResponse(request, response))
             => generatedTokensData'
                    = Append(generatedTokensData,
                             DecisionOf(response, Len(generatedTokensData)))]_vars

\* A single-step response has just been appended after an earlier decision.
C8_Witness ==
    /\ lastEvent = Event("generateNextToken", "success")
    /\ Len(generatedTokensData) = MaxHistory

\* C9: a run-to-end response handled to its end appends one decision per
\* entry of generated_tokens, in the order received, after the decisions the
\* history already holds.
C9_ToEndAppendsAllInOrder ==
    [][lastEvent' = Event("generateToEnd", "success")
       => \A request \in BagToSet(genRequests), response \in ToEndResponses :
             generateToEndResponse(request, response)
             => LET entries == Val(response.generated_tokens)
                    n == Len(generatedTokensData)
                IN  /\ Len(generatedTokensData') = n + Len(entries)
                    /\ SubSeq(generatedTokensData', 1, n) = generatedTokensData
                    /\ \A j \in 1..Len(entries) :
                          generatedTokensData'[n + j]
                              = DecisionOf(entries[j], n + j - 1)]_vars

\* A run-to-end response has just been appended and the last two decisions
\* of the history hold different tokens.
C9_Witness ==
    /\ lastEvent = Event("generateToEnd", "success")
    /\ Len(generatedTokensData) = MaxHistory
    /\ generatedTokensData[MaxHistory - 1].selected = Def(TokenRan)
    /\ generatedTokensData[MaxHistory].selected = Def(TokenSat)

\* C10: every decision of the history has a selected token and a list of
\* alternatives; no decision is appended for an incomplete step.
C10_DecisionsComplete ==
    \A i \in 1..Len(generatedTokensData) :
        /\ generatedTokensData[i].selected # Undefined
        /\ generatedTokensData[i].alternatives # Undefined

\* C11: the ready flag gates generation: while isModelInitialized is false a
\* call of generateNextToken or generateToEnd issues no service request and
\* changes neither the history, nor the prompt, nor the state of a button.
C11_NotReadyGatesGeneration ==
    [][(~isModelInitialized /\ (generateNextToken \/ generateToEnd))
       => /\ lastEvent'.outcome = "returned"
          /\ UNCHANGED <<genRequests, isModelInitialized, generatedTokensData,
                         generatedTokensSpan, originalPrompt, promptInput,
                         promptTextSpan, initializeBtn, generateNextBtn,
                         generateAllBtn>>]_vars

\* Generate Next has just been clicked on an enabled button while the model
\* was not ready, over a history that holds a decision.
C11_Witness ==
    /\ lastEvent = Event("generateNextToken", "returned")
    /\ ~isModelInitialized
    /\ Len(generatedTokensData) >= 1

\* C12: whenever a generation request is issued, an initialize call for the
\* model id the selector shows has succeeded and no other option has been
\* chosen since.  Every initialize call is for a model of Models, so a
\* request issued while the selector shows the placeholder has no such call.
C12_RequestOnlyForChosenModel ==
    (lastEvent.handler \in GenerationHandlers /\ lastEvent.outcome = "awaiting")
    => /\ isModelInitialized
       /\ modelSelect \in Models

\* C13: after an initialize call has failed, by a status other than success
\* or by a rejected request, the model is not ready: isModelInitialized is
\* false.
C13_FailedInitializeIsNotReady ==
    (lastEvent.handler = "initializeModel"
     /\ lastEvent.outcome \in {"reported", "network_error"})
    => ~isModelInitialized

\* C14: in every reachable state at most one dropdown of alternatives is
\* open, and opening the dropdown of a token leaves that dropdown as the only
\* one, whatever was open on another token before.
C14_AtMostOneDropdown ==
    /\ [](Cardinality(dropdowns) <= 1)
    /\ [][lastEvent' = Event("toggleDropdown", "returned")
          => \A i \in DOMAIN generatedTokensSpan :
                toggleDropdown(i)
                => dropdowns'
                       = {createDropdown(generatedTokensSpan[i].tokenData)}]_vars

\* The dropdown of the second token has just been opened and is the one open.
C14_Witness ==
    /\ lastEvent = Event("toggleDropdown", "returned")
    /\ Len(generatedTokensSpan) = 2
    /\ \E d \in dropdowns : d.index = 1

\* C15: the history never gets shorter through a service response or any
\* other automatic event: its length decreases only in a step of
\* selectAlternativeToken (a user's selection of an alternative) or of reset.
C15_HistoryShrinksOnlyByUser ==
    [][Len(generatedTokensData') < Len(generatedTokensData)
       => \/ reset
          \/ \E d \in dropdowns, k \in 1..Len(TopK) :
                selectAlternativeToken(d, k)]_vars

\* An alternative has just been selected, leaving a history shorter than
\* MaxHistory, while a generation request is outstanding.
C15_Witness ==
    /\ lastEvent = Event("selectAlternativeToken", "returned")
    /\ Len(generatedTokensData) < MaxHistory
    /\ BagCardinality(genRequests) >= 1

\* C16: selecting alternative t at position p restarts generation there.  The
\* selection issues no service request; a generation request the user
\* triggers next sends the prompt, the selected texts of decisions 0..p-1 and
\* the text of t; and what comes to stand from position p+1 on are the results
\* of that request, so nothing is appended before it has been issued.
C16_SelectionRestartsGeneration ==
    [][/\ lastEvent'.handler = "selectAlternativeToken"
          => UNCHANGED <<genRequests, initRequests>>
       /\ lastEvent = Event("selectAlternativeToken", "returned")
          => LET p == Len(generatedTokensData) - 1
                 t == Val(generatedTokensData[p + 1].selected)
             IN  /\ (lastEvent'.handler \in GenerationHandlers
                      /\ lastEvent'.outcome = "awaiting")
                     => lastEvent'.text
                            = originalPrompt
                              \o Flatten(SubSeq(SelectedTexts, 1, p))
                              \o t.token_text
                 /\ Len(generatedTokensData') <= p + 1]_vars

\* The places of the decisions a step has appended to the history.
Appended == (Len(generatedTokensData) + 1)..Len(generatedTokensData')

\* C17 as stated: right after a decision is created from a service response
\* its selected token is the first of its alternatives.
C17_SelectedIsTopRanked ==
    [][(lastEvent'.handler \in GenerationHandlers
        /\ lastEvent'.outcome = "success")
       => \A j \in Appended :
             generatedTokensData'[j].selected
                 = Def(Val(generatedTokensData'[j].alternatives)[1])]_vars

\* C17 as amended: right after a decision is created from a service response
\* its selected token is the selected_token the response gives for that step
\* and its alternatives are the step's top_k_tokens, whatever the rank of
\* the selected token among them.
C17_SelectedIsResponseToken ==
    [][/\ lastEvent' = Event("generateNextToken", "success")
          => \A request \in BagToSet(genRequests),
                response \in NextTokenResponses :
                generateNextTokenResponse(request, response)
                => \A j \in Appended :
                      /\ generatedTokensData'[j].selected
                             = response.selected_token
                      /\ generatedTokensData'[j].alternatives
                             = response.top_k_tokens
       /\ lastEvent' = Event("generateToEnd", "success")
          => \A request \in BagToSet(genRequests), response \in ToEndResponses :
                generateToEndResponse(request, response)
                => \A j \in Appended :
                      LET entry == Val(response.generated_tokens)
                                       [j - Len(generatedTokensData)]
                      IN  /\ generatedTokensData'[j].selected
                                 = entry.selected_token
                          /\ generatedTokensData'[j].alternatives
                                 = entry.top_k_tokens]_vars

\* A response has just been appended whose selected token is the second of
\* its alternatives.
C17_Witness ==
    /\ lastEvent = Event("generateNextToken", "success")
    /\ Len(generatedTokensData) >= 1
    /\ LET last == generatedTokensData[Len(generatedTokensData)]
       IN  /\ last.selected = Def(TokenRan)
           /\ Val(last.alternatives)[1] = TokenSat

\* C18: no generation operation ends in an uncaught exception: whatever the
\* service call gives and whatever the history, generateNextToken and
\* generateToEnd return normally, and once the call has been handled both
\* generate buttons are enabled.
C18_GenerationNeverUncaught ==
    lastEvent.handler \in GenerationHandlers
    => /\ lastEvent.outcome # "uncaught"
       /\ lastEvent.outcome \in {"success", "reported", "network_error",
                                 "type_error"}
          => (~generateNextBtn /\ ~generateAllBtn)

\* The number of service requests outstanding, and of those a step issues.
Outstanding == BagCardinality(genRequests) + BagCardinality(initRequests)

Issued ==
    BagCardinality(genRequests' (-) genRequests)
    + BagCardinality(initRequests' (-) initRequests)

\* C19: no automatic retries.  A step issues at most one service request; a
\* request is issued only by a click of Initialize, Generate Next or Generate
\* to End; and the step that handles a failed request removes that request
\* and issues none.
C19_NoAutomaticRetry ==
    [][/\ Issued <= 1
       /\ Issued = 1 => (initializeModel \/ generateNextToken \/ generateToEnd)
       /\ (/\ lastEvent'.handler \in GenerationHandlers \cup {"initializeModel"}
           /\ lastEvent'.outcome \in {"reported", "network_error",
                                      "type_error"})
          => (Issued = 0 /\ Outstanding' = Outstanding - 1)]_vars

\* A run-to-end request has just failed and no request is outstanding.
C19_Witness ==
    /\ lastEvent = Event("generateToEnd", "network_error")
    /\ genRequests = EmptyBag
    /\ initRequests = EmptyBag

\* loadConfig() has ended in a failure: the selector holds the one option of
\* value '' that the else branch or the catch block has written.
ConfigFailed == ~configRequest /\ modelSelectOptions = {""}

\* C20: once loading the configuration has failed, it has failed for the
\* rest of the session, and from then on isModelInitialized is false and
\* neither an initialize request nor a generation request is issued.
C20_ConfigFailureDisablesGeneration ==
    /\ [][ConfigFailed => ConfigFailed']_vars
    /\ [](ConfigFailed => /\ ~isModelInitialized
                          /\ modelSelect = ""
                          /\ initRequests = EmptyBag
                          /\ genRequests = EmptyBag)

\* After the configuration has failed to load the user has clicked
\* Initialize, which has returned at its test of the model name.
C20_Witness ==
    /\ ConfigFailed
    /\ lastEvent = Event("initializeModel", "returned")

\* C21: selectAlternativeToken called with a tokenIndex out of range, below 0
\* or at least the length of the history, throws and leaves the history and
\* the prompt as they were.
C21_OutOfRangeThrows ==
    [][\A tokenIndex \in IndexInputs, selectedToken \in Tokens :
          (/\ tokenIndex < 0 \/ tokenIndex >= Len(generatedTokensData)
           /\ selectAlternativeTokenCall(tokenIndex, selectedToken))
          => /\ lastEvent' = Event("selectAlternativeToken", "uncaught")
             /\ UNCHANGED <<generatedTokensData, generatedTokensSpan,
                            originalPrompt, promptInput, promptTextSpan>>]_vars

\* selectAlternativeToken has just thrown on a history that holds as many
\* decisions as it can, each with a selected token: the call was out of range.
C21_Witness ==
    /\ lastEvent = Event("selectAlternativeToken", "uncaught")
    /\ Len(generatedTokensData) = MaxHistory
    /\ Len(generatedTokensSpan) = MaxHistory
    /\ originalPrompt = <<"c">>

\* The five classes of a token, from the lowest tier to the highest.
Tiers ==
    <<"prob-very-low", "prob-low", "prob-medium", "prob-high",
      "prob-very-high">>

TierRank(className) == CHOOSE r \in DOMAIN Tiers : Tiers[r] = className

\* C22: getProbabilityClass is total and monotonic on the probabilities of
\* the grid: every rendered token has one of the five classes, no higher
\* probability has a lower tier, and 0.82 is very high.
C22_TiersTotalAndMonotonic ==
    \A i \in DOMAIN generatedTokensSpan :
        LET probability == Val(generatedTokensData[i].selected).probability
            className == generatedTokensSpan[i].className
        IN  /\ className = getProbabilityClass(probability)
            /\ \E r \in DOMAIN Tiers : Tiers[r] = className
            /\ \A higher \in Probabilities :
                  probability < higher
                  => TierRank(className)
                         <= TierRank(getProbabilityClass(higher))
            /\ probability = 820 => className = "prob-very-high"

\* A token of probability 0.82 has just been rendered.
C22_Witness ==
    /\ lastEvent = Event("addToken", "returned")
    /\ Len(generatedTokensSpan) = 1
    /\ Val(generatedTokensData[1].selected).probability = 820

\* The bands the README of the older variant gives: above 70% very high,
\* 50-70% high, 30-50% medium, 10-30% low, below 10% very low.  A
\* probability two bands name belongs to either.
DocumentedTiers(probability) ==
    {className \in {Tiers[r] : r \in DOMAIN Tiers} :
        \/ className = "prob-very-high" /\ probability > 700
        \/ className = "prob-high" /\ probability \in 500..700
        \/ className = "prob-medium" /\ probability \in 300..500
        \/ className = "prob-low" /\ probability \in 100..300
        \/ className = "prob-very-low" /\ probability < 100}

\* C23: in the older variant the class of every rendered token is the one
\* of the documented band of its probability, at the boundaries too.
C23_OriginalTiersAsDocumented ==
    \A i \in DOMAIN generatedTokensSpan :
        generatedTokensSpan[i].className
            \in DocumentedTiers(Val(generatedTokensData[i].selected).probability)

\* What the user sees of the token elements: text and class, in order.
Visible(elements) ==
    [i \in DOMAIN elements |->
        [textContent |-> elements[i].textContent,
         className |-> elements[i].className]]

\* C24: redraw is idempotent: renderTokens called again right after
\* renderTokens leaves the visible sequence of tokens, texts, classes and
\* order, as the first call left it, and neither call changes the history.
C24_RedrawIdempotent ==
    [][renderTokensCall
       => /\ generatedTokensData' = generatedTokensData
          /\ Visible(renderTokens(generatedTokensData').elements)
                 = Visible(generatedTokensSpan')
          /\ lastEvent.handler = "renderTokens"
             => Visible(generatedTokensSpan') = Visible(generatedTokensSpan)]_vars

\* renderTokens has just redrawn a full history whose tokens differ in class.
C24_Witness ==
    /\ lastEvent = Event("renderTokens", "returned")
    /\ Len(generatedTokensSpan) = MaxHistory
    /\ generatedTokensSpan[1].className # generatedTokensSpan[MaxHistory].className

\* C25: between issuing a generation request and folding its response the
\* prompt and the history do not change: while a request is outstanding no
\* step of reset, of the prompt input or of selectAlternativeToken changes
\* originalPrompt or generatedTokensData, so that a response is appended to
\* the text it was computed from.
C25_NoChangeWhileOutstanding ==
    [][(/\ genRequests # EmptyBag
        /\ lastEvent'.handler \in {"reset", "updatePromptDisplay",
                                   "selectAlternativeToken"})
       => UNCHANGED <<originalPrompt, generatedTokensData>>]_vars

\* C26: in every reachable state the Generate Next and Generate to End
\* buttons are enabled only if isModelInitialized is true.
C26_EnabledOnlyIfInitialized ==
    (~generateNextBtn \/ ~generateAllBtn) => isModelInitialized

\* C27: at most one initialize call is outstanding at any time: no second
\* initialize request is issued before the first has resolved.
C27_AtMostOneInitializeOutstanding == BagCardinality(initRequests) <= 1

\* C28: whenever a dropdown is open, the decision it was built from is the
\* element of generatedTokensData at its index, which is below the length of
\* the history; so selectAlternativeToken is only ever called with a
\* tokenIndex inside the history and a token of that decision's alternatives,
\* and never throws.
C28_DropdownsAreValid ==
    /\ \A d \in dropdowns :
          /\ d.index \in 0..(Len(generatedTokensData) - 1)
          /\ generatedTokensData[d.index + 1].index = d.index
          /\ generatedTokensData[d.index + 1].alternatives = Def(d.items)
    /\ lastEvent.handler = "selectAlternativeToken"
       => /\ lastEvent.outcome = "returned"
          /\ LET last == generatedTokensData[Len(generatedTokensData)]
             IN  \E k \in DOMAIN Val(last.alternatives) :
                    last.selected = Def(Val(last.alternatives)[k])

\* A dropdown is open on the second token while a generation request is
\* outstanding.
C28_Witness ==
    /\ \E d \in dropdowns : d.index = 1
    /\ genRequests # EmptyBag

\* The token elements of the page are the decisions of the history: one per
\* decision, in order, with the token_text of the decision's selected token.
DisplayIsHistory ==
    /\ Len(generatedTokensSpan) = Len(generatedTokensData)
    /\ \A i \in DOMAIN generatedTokensSpan :
          generatedTokensSpan[i].textContent = SelectedTexts[i]

\* C29: the display never shows more, fewer or other tokens than the history
\* holds, and every operation that touches the history, appending tokens,
\* selecting an alternative or resetting, leaves no dropdown open.
C29_DisplayShowsHistory ==
    /\ []DisplayIsHistory
    /\ [][(\/ generatedTokensData' # generatedTokensData
           \/ lastEvent'.handler \in {"selectAlternativeToken", "reset"})
          => dropdowns' = {}]_vars

====
